---- MODULE Spec2Model ----
(***************************************************************************)
(* Oasis manager (start.py): the configuration stored in config.json, the  *)
(* compose topology that write_compose derives from it, the text that      *)
(* dict_to_yaml renders, and the runs of main that create, read, compile   *)
(* and clear them.                                                         *)
(***************************************************************************)
EXTENDS Integers, Sequences, FiniteSets, TLC

(***************************************************************************)
(* The state of the program and of the host it runs on.                    *)
(***************************************************************************)
VARIABLES
    config_file,    \* config.json: [exists |-> FALSE] or the stored Config
    edits,          \* hand edits of config.json since it was created
    composefile,    \* oasis-compose-tmp-file.yml: absent or the rendered lines
    topology,       \* the dict built by the last write_compose of the run
    compiled,       \* the last write_compose of the stored config: what it
                    \* read and what it produced (kept after the run), and
                    \* whether the same stored config had been compiled before
    pc,             \* position of the current run of main, "idle" between runs
    args,           \* parsed arguments of the current run
    user,           \* uid and gid of the process of the current run
    is_linux,       \* is_linux() of the host
    running,        \* check_already_running(): the gameserver container is up
    docker,         \* the composecmd calls of the current run, in order
    cleared,        \* what clear_data has removed in the current run
    call,           \* a call of dict_to_yaml or generate_teams_array on its
                    \* own: the function and its arguments
    result          \* what that call returned, once it has returned

vars == <<config_file, edits, composefile, topology, compiled, pc, args, user, is_linux,
          running, docker, cleared, call, result>>

(***************************************************************************)
(* Bounds of the model.                                                    *)
(***************************************************************************)
\* largest answer to 'Number of teams' that the model enumerates
MaxTeams == 4
\* number of hand edits of config.json between its creation and its removal
MaxEdits == 1

(***************************************************************************)
(* Program constants.                                                      *)
(***************************************************************************)
\* 'Number of teams, >= 0 and < 250'
TeamLimit == 250
\* 'Wireguard start port, >= 1 and <= {65535-args.number_of_teams}'
MaxPort == 65535
\* default of indent_spaces in dict_to_yaml
indent_spaces_default == 4
\* Python's None; f"{None}" renders it as the text None
None == "None"

Max(a, b) == IF a > b THEN a ELSE b
Abs(n) == IF n < 0 THEN 0 - n ELSE n

(***************************************************************************)
(* Value trees: what write_compose hands to dict_to_yaml.  A dict keeps    *)
(* its insertion order, so it is a sequence of key/value entries.          *)
(***************************************************************************)
S(s) == [t |-> "str", v |-> s]
I(n) == [t |-> "int", v |-> n]
L(items) == [t |-> "list", v |-> items]
KV(k, val) == [k |-> k, v |-> val]

\* d[k] = val on a Python dict: a present key keeps its position and takes
\* the new value, a new key goes last
Put(items, k, val) ==
    IF \E i \in DOMAIN items : items[i].k = k
    THEN [i \in DOMAIN items |-> IF items[i].k = k THEN KV(k, val) ELSE items[i]]
    ELSE Append(items, KV(k, val))

\* a dict display / comprehension / ** merge: the entries are put in order
RECURSIVE PutAll(_, _, _)
PutAll(items, pairs, from) ==
    IF from > Len(pairs) THEN items
    ELSE PutAll(Put(items, pairs[from].k, pairs[from].v), pairs, from + 1)

\* when no key repeats, the dict is the entries in the order written
D(pairs) ==
    [t |-> "dict",
     v |-> IF \A i, j \in DOMAIN pairs : pairs[i].k = pairs[j].k => i = j
           THEN pairs
           ELSE PutAll(<<>>, pairs, 1)]

IsDict(x) == x.t = "dict"
IsList(x) == x.t = "list"
Keys(d) == {d.v[i].k : i \in DOMAIN d.v}
Has(d, k) == k \in Keys(d)
Get(d, k) == d.v[CHOOSE i \in DOMAIN d.v : d.v[i].k = k].v
Elems(l) == {l.v[i] : i \in DOMAIN l.v}

\* f"{value}" of a scalar
Format(x) == IF x.t = "int" THEN ToString(x.v) ELSE x.v

(***************************************************************************)
(* dict_to_yaml.  The text is a sequence of lines; a line is kept as the   *)
(* pieces the f-string joins: pad blanks, the "- " marker put by           *)
(* add_text_on_dict or by the list branch, the key, the separator and the  *)
(* formatted value.  LineText gives the characters of the line.            *)
(***************************************************************************)
Line(pad, mark, key, sep, val) ==
    [pad |-> pad, mark |-> mark, key |-> key, sep |-> sep, val |-> val]

RECURSIVE Spaces(_)
Spaces(n) == IF n <= 0 THEN "" ELSE " " \o Spaces(n - 1)

LineText(l) == Spaces(l.pad) \o l.mark \o l.key \o l.sep \o l.val

\* yaml += ..., piece after piece
RECURSIVE FlattenFrom(_, _)
FlattenFrom(ss, from) ==
    IF from > Len(ss) THEN <<>> ELSE ss[from] \o FlattenFrom(ss, from + 1)
Flatten(ss) == FlattenFrom(ss, 1)

\* slip: the unit of indentation is always the default one
spaces_len_default(indent_spaces, base_indent, additional_spaces) ==
    (indent_spaces_default * base_indent) + additional_spaces

\* the length of spaces = ' '*((indent_spaces*base_indent)+additional_spaces)
spaces_len(indent_spaces, base_indent, additional_spaces) ==
    (indent_spaces * base_indent) + additional_spaces

RECURSIVE dict_to_yaml(_, _, _, _, _)
dict_to_yaml(data, indent_spaces, base_indent, additional_spaces, add_text_on_dict) ==
    LET n == spaces_len(indent_spaces, base_indent, additional_spaces)
        DictEntry(i) ==
            LET e == data.v[i]
                first == i = 1 /\ add_text_on_dict # None
                pad == IF first THEN Max(n - Len(add_text_on_dict), 0) ELSE n
                mark == IF first THEN add_text_on_dict ELSE ""
            IN  IF IsDict(e.v) \/ IsList(e.v)
                THEN <<Line(pad, mark, e.k, ":", "")>>
                     \o dict_to_yaml(e.v, indent_spaces, base_indent + 1,
                                     additional_spaces, None)
                ELSE <<Line(pad, mark, e.k, ": ", Format(e.v))>>
        ListItem(i) ==
            LET item == data.v[i]
            IN  IF IsDict(item)
                THEN dict_to_yaml(item, indent_spaces, base_indent,
                                  additional_spaces + 2, "- ")
                ELSE IF IsList(item)
                THEN dict_to_yaml(item, indent_spaces, base_indent + 1,
                                  additional_spaces, None)
                ELSE <<Line(n, "- ", "", "", Format(item))>>
    IN  IF IsDict(data) THEN Flatten([i \in DOMAIN data.v |-> DictEntry(i)])
        ELSE IF IsList(data) THEN Flatten([i \in DOMAIN data.v |-> ListItem(i)])
        ELSE <<Line(0, "", "", "", Format(data))>>

\* the characters written to the file, line by line
Text(yaml) == [i \in DOMAIN yaml |-> LineText(yaml[i])]

(***************************************************************************)
(* Addresses.  write_compose formats every address from the team id; the   *)
(* model keeps the four octets and the prefix length and formats them the  *)
(* way the f-strings do.                                                   *)
(***************************************************************************)
Cidr(a, b, c, d, len) == [a |-> a, b |-> b, c |-> c, d |-> d, len |-> len]
FormatIp(x) ==
    ToString(x.a) \o "." \o ToString(x.b) \o "." \o ToString(x.c) \o "."
        \o ToString(x.d)
FormatCidr(x) == FormatIp(x) \o "/" \o ToString(x.len)

\* slip: the third octet is off by one
VmSubnet_shift(id) == Cidr(10, 60, id + 1, 0, 24)

\* f"10.60.{team.id}.0/24" and the addresses inside it
VmSubnet(id) == Cidr(10, 60, id, 0, 24)
VmGateway(id) == Cidr(10, 60, id, 254, 32)
VmRouterIp(id) == Cidr(10, 60, id, 250, 32)
VmHostIp(id) == Cidr(10, 60, id, 1, 32)
\* f"10.80.{team.id}.0/24" and the addresses inside it
PlayerSubnet(id) == Cidr(10, 80, id, 0, 24)
PlayerGateway(id) == Cidr(10, 80, id, 254, 32)
PlayerRouterIp(id) == Cidr(10, 80, id, 250, 32)
PlayerVpnIp(id) == Cidr(10, 80, id, 128, 32)
\* the shared gameserver network
GameserverSubnet == Cidr(10, 10, 0, 0, 24)
GameserverGateway == Cidr(10, 10, 0, 254, 32)
GameserverRouterIp == Cidr(10, 10, 0, 250, 32)
GameserverHostIp == Cidr(10, 10, 0, 1, 32)
\* slip: /24 where /16 is meant for the team ranges
AllowedIps_narrow ==
    <<Cidr(10, 10, 0, 0, 16), Cidr(10, 60, 0, 0, 24), Cidr(10, 80, 0, 0, 24)>>

\* "ALLOWEDIPS": "10.10.0.0/16, 10.60.0.0/16, 10.80.0.0/16"
AllowedIps == <<Cidr(10, 10, 0, 0, 16), Cidr(10, 60, 0, 0, 16), Cidr(10, 80, 0, 0, 16)>>
AllowedIpsText ==
    FormatCidr(AllowedIps[1]) \o ", " \o FormatCidr(AllowedIps[2]) \o ", "
        \o FormatCidr(AllowedIps[3])

\* slip: every team publishes the start port
ExternalPort_flat(config, team) == config.wireguard_start_port

\* f"{config.wireguard_start_port+team.id}"
ExternalPort(config, team) == config.wireguard_start_port + team.id

\* names keyed by the team id
VmNet(id) == "vm-team" \o ToString(id)
PlayersNet(id) == "players" \o ToString(id)
TeamSvc(id) == "team" \o ToString(id)
WireguardSvc(id) == "wireguard" \o ToString(id)

\* slip: the 'if not team.nop' filter is lost
NonNop_all(teams) == teams

NonNop(teams) == SelectSeq(teams, LAMBDA team : ~team.nop)

(***************************************************************************)
(* The dict that write_compose builds from the config.  puid and pgid are  *)
(* os.getuid() / os.getgid() on Linux and 0 elsewhere.                     *)
(***************************************************************************)
\* slip: the router is left off the player networks
RouterNetworks_vmonly(config) ==
    D([i \in DOMAIN config.teams |->
            KV(VmNet(config.teams[i].id),
               D(<<KV("priority", I(10)),
                   KV("ipv4_address", S(FormatIp(VmRouterIp(config.teams[i].id))))>>))]
      \o <<KV("gameserver", D(<<KV("priority", I(10)),
                                KV("ipv4_address", S(FormatIp(GameserverRouterIp)))>>)),
           KV("externalnet", D(<<KV("priority", I(1))>>))>>)

\* slip: the router joins a player network for every team, nop or not
RouterNetworks_all(config) ==
    D([i \in DOMAIN config.teams |->
            KV(VmNet(config.teams[i].id),
               D(<<KV("priority", I(10)),
                   KV("ipv4_address", S(FormatIp(VmRouterIp(config.teams[i].id))))>>))]
      \o <<KV("gameserver", D(<<KV("priority", I(10)),
                                KV("ipv4_address", S(FormatIp(GameserverRouterIp)))>>)),
           KV("externalnet", D(<<KV("priority", I(1))>>))>>
      \o [i \in DOMAIN config.teams |->
            KV(PlayersNet(config.teams[i].id),
               D(<<KV("priority", I(10)),
                   KV("ipv4_address", S(FormatIp(PlayerRouterIp(config.teams[i].id))))>>))])

\* "networks" of the router: every team's VM network, the gameserver
\* network, the external network, every non-nop team's player network
RouterNetworks(config) ==
    LET players == NonNop(config.teams)
    IN  D([i \in DOMAIN config.teams |->
                KV(VmNet(config.teams[i].id),
                   D(<<KV("priority", I(10)),
                       KV("ipv4_address",
                          S(FormatIp(VmRouterIp(config.teams[i].id))))>>))]
          \o <<KV("gameserver", D(<<KV("priority", I(10)),
                                    KV("ipv4_address",
                                       S(FormatIp(GameserverRouterIp)))>>)),
               KV("externalnet", D(<<KV("priority", I(1))>>))>>
          \o [i \in DOMAIN players |->
                KV(PlayersNet(players[i].id),
                   D(<<KV("priority", I(10)),
                       KV("ipv4_address",
                          S(FormatIp(PlayerRouterIp(players[i].id))))>>))])

\* slip: the gameserver also waits for the VPN endpoints
gameserver_depends_on_wg(config) ==
    <<S("router"), S("database")>>
    \o [i \in DOMAIN config.teams |-> S(TeamSvc(config.teams[i].id))]
    \o [i \in DOMAIN NonNop(config.teams) |->
            S(WireguardSvc(NonNop(config.teams)[i].id))]

\* "depends_on" of the gameserver
gameserver_depends_on(config) ==
    <<S("router"), S("database")>>
    \o [i \in DOMAIN config.teams |-> S(TeamSvc(config.teams[i].id))]

\* slip: the gameserver is counted as a team
NTeam_plus(config) == Len(config.teams) + 1

\* "NTEAM": len(config.teams)
NTeam(config) == Len(config.teams)

RouterService(config) ==
    D(<<KV("hostname", S("router")),
        KV("dns", L(<<S(config.dns)>>)),
        KV("build", S("./router")),
        KV("cap_add", L(<<S("NET_ADMIN"), S("SYS_MODULE"), S("SYS_ADMIN")>>)),
        KV("sysctls", L(<<S("net.ipv4.ip_forward=1"),
                          S("net.ipv4.tcp_timestamps=0"),
                          S("net.ipv4.conf.all.rp_filter=1"),
                          S("net.ipv6.conf.all.forwarding=0")>>)),
        KV("environment", D(<<KV("NTEAM", I(NTeam(config))),
                              KV("RATE_NET", S(config.network_limit_bandwidth))>>)),
        KV("volumes", L(<<S("unixsk:/unixsk")>>)),
        KV("restart", S("unless-stopped")),
        KV("networks", RouterNetworks(config))>>)

DatabaseService(config) ==
    D(<<KV("hostname", S("oasis-database")),
        KV("dns", L(<<S(config.dns)>>)),
        KV("image", S("postgres:17")),
        KV("restart", S("unless-stopped")),
        KV("environment", D(<<KV("POSTGRES_USER", S("oasis")),
                              KV("POSTGRES_PASSWORD", S("oasis")),
                              KV("POSTGRES_DB", S("oasis"))>>)),
        KV("volumes", L(<<S("oasis-postgres-db:/var/lib/postgresql/data")>>)),
        KV("networks", D(<<KV("internalnet", S(""))>>))>>)

GameserverService(config) ==
    D(<<KV("hostname", S("gameserver")),
        KV("dns", L(<<S(config.dns)>>)),
        KV("build", S("./game_server")),
        KV("restart", S("unless-stopped")),
        KV("container_name", S("oasis_gameserver")),
        KV("cap_add", L(<<S("NET_ADMIN")>>))>>
      \o (IF config.gameserver_exposed_port # None
          THEN <<KV("ports", L(<<S(config.gameserver_exposed_port \o ":80")>>))>>
          ELSE <<>>)
      \o <<KV("depends_on", L(gameserver_depends_on(config))),
           KV("networks", D(<<KV("internalnet", D(<<KV("priority", I(1))>>)),
                              KV("gameserver",
                                 D(<<KV("priority", I(10)),
                                     KV("ipv4_address",
                                        S(FormatIp(GameserverHostIp)))>>))>>)),
           KV("volumes", L(<<S("./game_server/checkers:/app/checkers:z"),
                             S("unixsk:/unixsk"),
                             S("./config.json:/app/config.json:z")>>))>>)

\* slip: the hardened runtime is always set, privileged comes on top
Isolation_both(config) ==
    (IF config.unsafe_privileged THEN <<KV("privileged", S("true"))>> ELSE <<>>)
    \o <<KV("runtime", S("sysbox-runc"))>>

\* **({"privileged": "true"} if config.unsafe_privileged else
\*    { "runtime": "sysbox-runc" })
Isolation(config) ==
    IF config.unsafe_privileged
    THEN <<KV("privileged", S("true"))>>
    ELSE <<KV("runtime", S("sysbox-runc"))>>

\* slip: the VM also joins the shared gameserver network
TeamNetworks_gameserver(team) ==
    D(<<KV(VmNet(team.id), D(<<KV("ipv4_address", S(FormatIp(VmHostIp(team.id))))>>)),
        KV("gameserver", D(<<KV("ipv4_address", S(FormatIp(GameserverHostIp)))>>))>>)

\* "networks" of team<id>
TeamNetworks(team) ==
    D(<<KV(VmNet(team.id), D(<<KV("ipv4_address", S(FormatIp(VmHostIp(team.id))))>>))>>)

TeamService(config, team) ==
    D(<<KV("hostname", S(TeamSvc(team.id))),
        KV("dns", L(<<S(config.dns)>>)),
        KV("build", D(<<KV("context", S("./vm")),
                        KV("args", D(<<KV("TOKEN", S(team.token))>>))>>))>>
      \o (IF config.max_disk_size # None /\ config.max_disk_size # ""
          THEN <<KV("storage_opt", D(<<KV("size", S(config.max_disk_size))>>))>>
          ELSE <<>>)
      \o Isolation(config)
      \o <<KV("restart", S("unless-stopped")),
           KV("networks", TeamNetworks(team)),
           KV("deploy", D(<<KV("resources", D(<<KV("limits",
                D(<<KV("cpus", S("\"" \o config.max_vm_cpus \o "\"")),
                    KV("memory", S(config.max_vm_mem))>>))>>))>>))>>)

WireguardService(config, team, puid, pgid) ==
    D(<<KV("hostname", S(WireguardSvc(team.id))),
        KV("dns", L(<<S(config.dns)>>)),
        KV("build", S("./wireguard")),
        KV("restart", S("unless-stopped")),
        KV("cap_add", L(<<S("NET_ADMIN"), S("SYS_MODULE")>>)),
        KV("sysctls", L(<<S("net.ipv4.ip_forward=1"),
                          S("net.ipv4.conf.all.src_valid_mark=1")>>)),
        KV("volumes", L(<<S("./wireguard/conf" \o ToString(team.id) \o ":/config:z")>>)),
        KV("networks", D(<<KV(PlayersNet(team.id),
                              D(<<KV("ipv4_address",
                                     S(FormatIp(PlayerVpnIp(team.id))))>>))>>)),
        KV("ports", L(<<S(ToString(ExternalPort(config, team)) \o ":51820/udp")>>)),
        KV("environment", D(<<KV("PUID", I(puid)),
                              KV("PGID", I(pgid)),
                              KV("TZ", S("Etc/UTC")),
                              KV("PEERS", I(config.wireguard_profiles)),
                              KV("PEERDNS", S(config.dns)),
                              KV("ALLOWEDIPS", S(AllowedIpsText)),
                              KV("SERVERURL", S(config.server_addr)),
                              KV("SERVERPORT", I(ExternalPort(config, team))),
                              KV("INTERNAL_SUBNET",
                                 S(FormatCidr(PlayerSubnet(team.id))))>>))>>)

IpamNetwork(internal, driver, subnet, gateway) ==
    D((IF internal THEN <<KV("internal", S("true"))>> ELSE <<>>)
      \o <<KV("driver", S(driver)),
           KV("ipam", D(<<KV("driver", S("default")),
                          KV("config", L(<<D(<<KV("subnet", S(FormatCidr(subnet))),
                                               KV("gateway", S(FormatIp(gateway)))>>)>>))>>))>>)

Services(config, puid, pgid) ==
    LET players == NonNop(config.teams)
    IN  D(<<KV("router", RouterService(config)),
            KV("database", DatabaseService(config)),
            KV("gameserver", GameserverService(config))>>
          \o [i \in DOMAIN config.teams |->
                KV(TeamSvc(config.teams[i].id), TeamService(config, config.teams[i]))]
          \o [i \in DOMAIN players |->
                KV(WireguardSvc(players[i].id),
                   WireguardService(config, players[i], puid, pgid))])

Networks(config) ==
    LET players == NonNop(config.teams)
    IN  D(<<KV("externalnet", S("")),
            KV("internalnet", S("")),
            KV("gameserver",
               IpamNetwork(TRUE, "macvlan", GameserverSubnet, GameserverGateway))>>
          \o [i \in DOMAIN config.teams |->
                KV(VmNet(config.teams[i].id),
                   IpamNetwork(TRUE, "macvlan", VmSubnet(config.teams[i].id),
                               VmGateway(config.teams[i].id)))]
          \o [i \in DOMAIN players |->
                KV(PlayersNet(players[i].id),
                   IpamNetwork(FALSE, "bridge", PlayerSubnet(players[i].id),
                               PlayerGateway(players[i].id)))])

\* slip: a recompile patches the previous document instead of rebuilding it,
\* and the sections come out in another order
ComposeDict_patched(config, puid, pgid) ==
    IF compiled.done
    THEN D(<<KV("networks", Networks(config)),
             KV("volumes", D(<<KV("unixsk", S("")), KV("oasis-postgres-db", S(""))>>)),
             KV("services", Services(config, puid, pgid))>>)
    ELSE D(<<KV("services", Services(config, puid, pgid)),
             KV("volumes", D(<<KV("unixsk", S("")), KV("oasis-postgres-db", S(""))>>)),
             KV("networks", Networks(config))>>)

ComposeDict(config, puid, pgid) ==
    D(<<KV("services", Services(config, puid, pgid)),
        KV("volumes", D(<<KV("unixsk", S("")), KV("oasis-postgres-db", S(""))>>)),
        KV("networks", Networks(config))>>)

(***************************************************************************)
(* Inputs of the runs.                                                     *)
(***************************************************************************)
\* os.getuid() / os.getgid() of the users that run the manager
Users == {[uid |-> 0, gid |-> 0], [uid |-> 1000, gid |-> 1000]}

\* the answers typed at the prompts of config_input
TeamAnswers == (-1 .. MaxTeams) \cup {TeamLimit}
PortAnswers == {0, 51000, 65533}
YesNo == BOOLEAN
\* sysbox, disk limit and exposed scoreboard: all defaults, or all declined
OptionAnswers ==
    {[sysbox |-> yes, disk_limit |-> yes, expose_gameserver |-> yes] : yes \in YesNo}
Answers ==
    {[number_of_teams |-> n, wireguard_start_port |-> p, enable_nop_team |-> nop,
      sysbox |-> o.sysbox, disk_limit |-> o.disk_limit,
      expose_gameserver |-> o.expose_gameserver] :
        n \in TeamAnswers, p \in PortAnswers, nop \in YesNo, o \in OptionAnswers}

\* outcomes of secrets.token_hex(32)
TokenDraws == {1, 2}
token_hex(draw) == [k \in Nat |-> "t" \o ToString(draw) \o "x" \o ToString(k)]

\* values an operator writes into config.json by hand
EditPorts == {65533}
EditIds == {250}

(***************************************************************************)
(* Config creation.                                                        *)
(***************************************************************************)
Team(id, name, token, wireguard_port, nop) ==
    [id |-> id, name |-> name, token |-> token,
     wireguard_port |-> wireguard_port, nop |-> nop]

\* slip: the ids are counted from 1
generate_teams_array_from1(number_of_teams, enable_nop_team, wireguard_start_port, tokens) ==
    [k \in 1 .. (number_of_teams + (IF enable_nop_team THEN 1 ELSE 0)) |->
        LET i == k
        IN  Team(i,
                 IF i = 0 /\ enable_nop_team THEN "Nop Team"
                 ELSE "Team " \o ToString(i),
                 tokens[k],
                 wireguard_start_port + i,
                 i = 0 /\ enable_nop_team)]

generate_teams_array(number_of_teams, enable_nop_team, wireguard_start_port, tokens) ==
    [k \in 1 .. (number_of_teams + (IF enable_nop_team THEN 1 ELSE 0)) |->
        LET i == k - 1
        IN  Team(i,
                 IF i = 0 /\ enable_nop_team THEN "Nop Team"
                 ELSE "Team " \o ToString(i),
                 tokens[k],
                 wireguard_start_port + i,
                 i = 0 /\ enable_nop_team)]

\* the two prompt loops of config_input end only on an answer in range
number_of_teams_accepted(answer) ==
    ~(Abs(answer) < 0 \/ Abs(answer) >= TeamLimit)
wireguard_start_port_accepted(answer, number_of_teams) ==
    ~(Abs(answer) < 1 \/ Abs(answer) > MaxPort - number_of_teams)

config_input_accepted(a) ==
    /\ number_of_teams_accepted(a.number_of_teams)
    /\ wireguard_start_port_accepted(a.wireguard_start_port, Abs(a.number_of_teams))

config_input(a, tokens) ==
    [wireguard_start_port |-> Abs(a.wireguard_start_port),
     wireguard_profiles |-> 30,
     server_addr |-> "198.51.100.7",
     dns |-> "1.1.1.1",
     network_limit_bandwidth |-> "20mbit",
     max_vm_cpus |-> "1",
     max_vm_mem |-> "2G",
     max_disk_size |-> IF a.disk_limit THEN "30G" ELSE None,
     gameserver_token |-> tokens[0],
     unsafe_privileged |-> ~a.sysbox,
     gameserver_exposed_port |-> IF a.expose_gameserver THEN "127.0.0.1:8888" ELSE None,
     teams |-> generate_teams_array(Abs(a.number_of_teams), a.enable_nop_team,
                                    Abs(a.wireguard_start_port), tokens)]

NoFile == [exists |-> FALSE]
NoTopology == [t |-> "none"]
Stored(config) == [exists |-> TRUE, config |-> config]
config_exists == config_file.exists
read_config == config_file.config

(***************************************************************************)
(* write_compose: build the dict, render it, write the file.               *)
(***************************************************************************)
Puid(u, linux) == IF linux THEN u.uid ELSE 0
Pgid(u, linux) == IF linux THEN u.gid ELSE 0

\* what one call of write_compose read and what it produced
NotCompiled == [done |-> FALSE]
Compiled(config, puid, pgid, yaml, again) ==
    [done |-> TRUE, config |-> config, puid |-> puid, pgid |-> pgid, yaml |-> yaml,
     again |-> again]

\* write_compose(config) run by user u: the file takes
\* dict_to_yaml(<the dict>) with the default indent
write_compose(config, u) ==
    /\ topology' = ComposeDict(config, Puid(u, is_linux), Pgid(u, is_linux))
    /\ composefile' = [exists |-> TRUE,
                       yaml |-> dict_to_yaml(topology', indent_spaces_default, 0, 0, None)]
    /\ compiled' = Compiled(config, Puid(u, is_linux), Pgid(u, is_linux),
                            composefile'.yaml, compiled.done)

(***************************************************************************)
(* main.  A run starts from "idle" with the parsed arguments and the user  *)
(* that launched it, and ends in the finally block ("exit").  The run is   *)
(* cut where main hands over to docker: composecmd and the logs tail.      *)
(***************************************************************************)
Args(command, config_only, logs, cmd) ==
    [command |-> command, config_only |-> config_only, logs |-> logs, cmd |-> cmd,
     flags |-> {}, answer |-> ""]

NoArgs == Args("", FALSE, FALSE, "")
\* no function is called on its own while main runs
NoCall == [fn |-> "none"]
NoResult == [done |-> FALSE]
NoUser == [uid |-> 0, gid |-> 0]

\* after the command: the logs tail runs only for 'logs' in args and args.logs
AfterCommand(logs) == IF logs THEN "logs" ELSE "exit"

\* start --config-only: only generate the config file, and only when there
\* is none
StartConfigOnly(u) ==
    /\ pc = "idle"
    /\ user' = u
    /\ args' = Args("start", TRUE, FALSE, "")
    /\ pc' = IF config_exists THEN "exit" ELSE "config_input"
    /\ UNCHANGED <<config_file, edits, composefile, topology, compiled, is_linux,
                   running, docker, cleared, call, result>>

\* 'docker ps' or 'docker compose --version' fails: exit()
DockerUnavailable(u, command) ==
    /\ pc = "idle"
    /\ user' = u
    /\ args' = Args(command, FALSE, FALSE, "")
    /\ pc' = "exit"
    /\ UNCHANGED <<config_file, edits, composefile, topology, compiled, is_linux,
                   running, docker, cleared, call, result>>

\* slip: start asks for a new config whether or not there is one
Start_overwrite(u, logs) ==
    /\ pc = "idle"
    /\ user' = u
    /\ args' = Args("start", FALSE, logs, "up")
    /\ pc' = "config_input"
    /\ UNCHANGED <<config_file, edits, composefile, topology, compiled, is_linux,
                   running, docker, cleared, call, result>>

\* start: ask for the config if there is none, else read it
Start(u, logs) ==
    /\ pc = "idle"
    /\ user' = u
    /\ args' = Args("start", FALSE, logs, "up")
    /\ pc' = IF config_exists THEN "prebuild" ELSE "config_input"
    /\ UNCHANGED <<config_file, edits, composefile, topology, compiled, is_linux,
                   running, docker, cleared, call, result>>

\* config = config_input(); create_config(config): the operator's answers
\* become config.json
ConfigInput(a, draw) ==
    /\ pc = "config_input"
    /\ config_input_accepted(a)
    /\ config_file' = Stored(config_input(a, token_hex(draw)))
    /\ edits' = 0
    /\ pc' = IF args.config_only THEN "exit" ELSE "prebuild"
    /\ UNCHANGED <<composefile, topology, compiled, args, user, is_linux, running,
                   docker, cleared, call, result>>

\* start, once the config is there: prebuild the VM base image if there are
\* teams (exit(1) when a build step fails), compile, bring the stack up
StartUp(prebuilt_ok) ==
    /\ pc = "prebuild"
    /\ IF Len(read_config.teams) > 0 /\ ~prebuilt_ok
       THEN /\ pc' = "exit"
            /\ UNCHANGED <<composefile, topology, compiled>>
       ELSE /\ write_compose(read_config, user)
            /\ pc' = "composecmd"
    /\ UNCHANGED <<config_file, edits, args, user, is_linux, running, docker, cleared,
                   call, result>>

\* compose <args>: compile and pass the arguments to docker compose
Compose(u) ==
    /\ pc = "idle"
    /\ user' = u
    /\ IF ~config_exists
       THEN /\ args' = Args("compose", FALSE, FALSE, "")
            /\ pc' = AfterCommand(FALSE)
            /\ UNCHANGED <<composefile, topology, compiled>>
       ELSE /\ args' = Args("compose", FALSE, FALSE, "compose_args")
            /\ write_compose(read_config, u)
            /\ pc' = "composecmd"
    /\ UNCHANGED <<config_file, edits, is_linux, running, docker, cleared, call, result>>

\* restart and stop: compile and call docker only when the stack is running
RestartOrStop(u, command, logs) ==
    /\ pc = "idle"
    /\ command \in {"restart", "stop"}
    /\ user' = u
    /\ IF config_exists /\ running
       THEN /\ args' = Args(command, FALSE, logs /\ command = "restart",
                            IF command = "restart" THEN "restart" ELSE "down")
            /\ write_compose(read_config, u)
            /\ pc' = "composecmd"
       ELSE /\ args' = Args(command, FALSE, logs /\ command = "restart", "")
            /\ pc' = AfterCommand(logs /\ command = "restart")
            /\ UNCHANGED <<composefile, topology, compiled>>
    /\ UNCHANGED <<config_file, edits, is_linux, running, docker, cleared, call, result>>

\* the flags of 'clear' and what clear_data can remove: one per flag but --all
ClearFlags ==
    {"all", "config", "prebuilded_container", "prebuilder_image", "prebuilt_image",
     "wireguard", "checkers_data", "gameserver_data"}
Removable == ClearFlags \ {"all"}

\* the flag sets and the answers to 'are you sure? (y/N)' that the runs try
ClearFlagSets ==
    {{}, {"all"}, {"config"}, {"wireguard"}, {"all", "config"},
     {"config", "gameserver_data"}, {"prebuilt_image", "checkers_data"}}
ClearAnswers == {"y", "Y", "n", ""}

\* input().lower()
Lower(answer) == IF answer = "Y" THEN "y" ELSE answer

\* slip: the 'is running' check is only made for a clear without flags
ClearedBy_flagsunchecked(is_running, flags, answer) ==
    IF flags = {} THEN (IF is_running THEN {} ELSE Removable \ {"config"})
    ELSE IF "all" \in flags THEN (IF Lower(answer) = "y" THEN Removable ELSE {})
    ELSE flags

\* case "clear" of main: what its clear_data calls remove.  Nothing while
\* the gameserver runs (exit(1)); everything but the config without a flag;
\* with --all nothing unless the answer is 'y' (return), else everything;
\* otherwise what the flags name
ClearedBy(is_running, flags, answer) ==
    IF is_running THEN {}
    ELSE IF flags = {} THEN Removable \ {"config"}
    ELSE IF "all" \in flags THEN (IF Lower(answer) = "y" THEN Removable ELSE {})
    ELSE flags

\* clear: clear_data removes config.json with try_to_remove
Clear(u, flags, answer) ==
    /\ pc = "idle"
    /\ user' = u
    /\ args' = [Args("clear", FALSE, FALSE, "") EXCEPT
                    !.flags = flags,
                    !.answer = IF ~running /\ "all" \in flags THEN answer ELSE ""]
    /\ cleared' = ClearedBy(running, flags, answer)
    /\ IF "config" \in cleared'
       THEN /\ config_file' = NoFile
            /\ edits' = 0
            /\ compiled' = NotCompiled
       ELSE UNCHANGED <<config_file, edits, compiled>>
    /\ pc' = "exit"
    /\ UNCHANGED <<composefile, topology, is_linux, running, docker, call, result>>

\* status
Status(u) ==
    /\ pc = "idle"
    /\ user' = u
    /\ args' = Args("status", FALSE, FALSE, "")
    /\ pc' = AfterCommand(FALSE)
    /\ UNCHANGED <<config_file, edits, composefile, topology, compiled, is_linux,
                   running, docker, cleared, call, result>>

\* composecmd(cmd, g.composefile): docker compose reads the file; 'up'
\* starts the gameserver container and 'down' stops it, when docker succeeds
ComposeCmd(ok) ==
    /\ pc = "composecmd"
    /\ running' = IF ~ok THEN running
                  ELSE IF args.cmd = "up" THEN TRUE
                  ELSE IF args.cmd = "down" THEN FALSE
                  ELSE running
    /\ docker' = Append(docker, [cmd |-> args.cmd, composefile |-> TRUE])
    /\ pc' = AfterCommand(args.logs)
    /\ UNCHANGED <<config_file, edits, composefile, topology, compiled, args, user,
                   is_linux, cleared, call, result>>

\* the tail of main: with --logs, compile again if the config exists, and
\* in either case follow the logs with composecmd("logs -f")
Logs ==
    /\ pc = "logs"
    /\ IF config_exists
       THEN write_compose(read_config, user)
       ELSE UNCHANGED <<composefile, topology, compiled>>
    /\ docker' = Append(docker, [cmd |-> "logs -f", composefile |-> FALSE])
    /\ pc' = "exit"
    /\ UNCHANGED <<config_file, edits, args, user, is_linux, running, cleared, call,
                   result>>

\* the finally block: the compose file is removed when the run ends, and
\* the process with its arguments is gone
Exit ==
    /\ pc = "exit"
    /\ composefile' = NoFile
    /\ topology' = NoTopology
    /\ pc' = "idle"
    /\ args' = NoArgs
    /\ user' = NoUser
    /\ docker' = <<>>
    /\ cleared' = {}
    /\ UNCHANGED <<config_file, edits, compiled, is_linux, running, call, result>>

(***************************************************************************)
(* The operator customises config.json by hand between two runs            *)
(* ('you can customize it by editing config.json'); Config.from_dict       *)
(* takes what the file holds.  An edit changes the start port or gives a   *)
(* team an id that no other team has.                                      *)
(***************************************************************************)
TeamIds(config) == {config.teams[i].id : i \in DOMAIN config.teams}

edit_start_port(config, p) == [config EXCEPT !.wireguard_start_port = p]
edit_team_id(config, k, id) == [config EXCEPT !.teams[k].id = id]

EditStartPort(p) ==
    /\ pc = "idle"
    /\ config_exists
    /\ edits < MaxEdits
    /\ p # read_config.wireguard_start_port
    /\ config_file' = Stored(edit_start_port(read_config, p))
    /\ edits' = edits + 1
    /\ compiled' = NotCompiled
    /\ UNCHANGED <<composefile, topology, pc, args, user, is_linux, running, docker,
                   cleared, call, result>>

EditTeamId(k, id) ==
    /\ pc = "idle"
    /\ config_exists
    /\ edits < MaxEdits
    /\ k \in DOMAIN read_config.teams
    /\ id \notin TeamIds(read_config)
    /\ config_file' = Stored(edit_team_id(read_config, k, id))
    /\ edits' = edits + 1
    /\ compiled' = NotCompiled
    /\ UNCHANGED <<composefile, topology, pc, args, user, is_linux, running, docker,
                   cleared, call, result>>

Init ==
    /\ config_file = NoFile
    /\ edits = 0
    /\ composefile = NoFile
    /\ topology = NoTopology
    /\ compiled = NotCompiled
    /\ pc = "idle"
    /\ args = NoArgs
    /\ user = NoUser
    /\ is_linux \in BOOLEAN
    /\ running = FALSE
    /\ docker = <<>>
    /\ cleared = {}
    /\ call = NoCall
    /\ result = NoResult

Next ==
    \/ \E u \in Users : StartConfigOnly(u)
    \/ \E u \in Users, command \in {"start", "compose", "restart", "stop", "clear", "status"} :
          DockerUnavailable(u, command)
    \/ \E u \in Users, logs \in BOOLEAN : Start(u, logs)
    \/ \E a \in Answers, draw \in TokenDraws : ConfigInput(a, draw)
    \/ \E prebuilt_ok \in BOOLEAN : StartUp(prebuilt_ok)
    \/ \E u \in Users : Compose(u)
    \/ \E u \in Users, command \in {"restart", "stop"}, logs \in BOOLEAN :
          RestartOrStop(u, command, logs)
    \/ \E u \in Users, flags \in ClearFlagSets, answer \in ClearAnswers :
          Clear(u, flags, answer)
    \/ \E u \in Users : Status(u)
    \/ \E ok \in BOOLEAN : ComposeCmd(ok)
    \/ Logs
    \/ Exit
    \/ \E p \in EditPorts : EditStartPort(p)
    \/ \E k \in 1 .. (MaxTeams + 1), id \in EditIds : EditTeamId(k, id)

Spec == Init /\ [][Next]_vars

(***************************************************************************)
(* The compiler on its own: config.json already holds a config that        *)
(* config_input created, hand-edited at most MaxEdits times, and the       *)
(* operator runs 'compose' on it again and again, as any user.             *)
(***************************************************************************)
CreatedConfigs ==
    {config_input(a, token_hex(draw)) :
        a \in {x \in Answers : config_input_accepted(x)}, draw \in TokenDraws}

OneEdit(configs) ==
    {edit_start_port(c, p) : c \in configs, p \in EditPorts}
    \cup UNION {{edit_team_id(c, k, id) :
                    k \in DOMAIN c.teams, id \in EditIds \ TeamIds(c)} : c \in configs}

RECURSIVE EditedConfigs(_)
EditedConfigs(n) ==
    IF n = 0 THEN CreatedConfigs
    ELSE EditedConfigs(n - 1) \cup OneEdit(EditedConfigs(n - 1))

StoredConfigs == EditedConfigs(MaxEdits)

InitCompile ==
    /\ config_file \in {Stored(c) : c \in StoredConfigs}
    /\ edits = 0
    /\ composefile = NoFile
    /\ topology = NoTopology
    /\ compiled = NotCompiled
    /\ pc = "idle"
    /\ args = NoArgs
    /\ user = NoUser
    /\ is_linux \in BOOLEAN
    /\ running = FALSE
    /\ docker = <<>>
    /\ cleared = {}
    /\ call = NoCall
    /\ result = NoResult

NextCompile ==
    \/ \E u \in Users : Compose(u)
    \/ \E ok \in BOOLEAN : ComposeCmd(ok)
    \/ Exit

SpecCompile == InitCompile /\ [][NextCompile]_vars

TypeOK ==
    /\ pc \in {"idle", "config_input", "prebuild", "composecmd", "logs", "exit"}
    /\ config_file.exists \in BOOLEAN
    /\ compiled.done => config_file.exists /\ compiled.config = config_file.config
    /\ composefile.exists => compiled.done /\ composefile.yaml = compiled.yaml
    /\ composefile.exists <=> IsDict(topology)
    /\ cleared \subseteq Removable
    /\ Len(docker) <= 2
    /\ call = NoCall /\ result = NoResult

(***************************************************************************)
(* Reading the compiled topology.                                          *)
(***************************************************************************)
\* a write_compose of this run has built the dict and written the file
Built == IsDict(topology)
\* the config that write_compose read
Cfg == compiled.config
TServices == Get(topology, "services")
TNetworks == Get(topology, "networks")
Service(name) == Get(TServices, name)
Network(name) == Get(TNetworks, name)
\* the strings of a list of scalars
Strings(l) == {Format(l.v[i]) : i \in DOMAIN l.v}
\* ipam.config[0].subnet of a network that has one
SubnetOf(net) == Get(Get(Get(net, "ipam"), "config").v[1], "subnet").v
GatewayOf(net) == Get(Get(Get(net, "ipam"), "config").v[1], "gateway").v
PortsOf(svc) == IF Has(svc, "ports") THEN Strings(Get(svc, "ports")) ELSE {}
DependsOn(svc) == IF Has(svc, "depends_on") THEN Strings(Get(svc, "depends_on")) ELSE {}
NetworksOf(svc) == Keys(Get(svc, "networks"))
Published(port) == ToString(port) \o ":51820/udp"
TeamsOf(config) == {config.teams[i] : i \in DOMAIN config.teams}

(***************************************************************************)
(* C1 - C4: the shape of the compiled topology.                            *)
(***************************************************************************)
\* C1: two teams of one config with different ids get different VM networks
\* and VM subnets (10.60.<id>.0/24), different player networks and player
\* subnets (10.80.<id>.0/24) and different published VPN ports
\* (wireguard_start_port + id); no two networks of the topology share a
\* subnet and no two services publish the same port.
C1_TeamsGetDistinctSubnetsAndPorts ==
    Built =>
        /\ \A a, b \in TeamsOf(Cfg) : a.id # b.id =>
            /\ VmNet(a.id) # VmNet(b.id)
            /\ {VmNet(a.id), VmNet(b.id)} \subseteq Keys(TNetworks)
            /\ SubnetOf(Network(VmNet(a.id))) = FormatCidr(VmSubnet(a.id))
            /\ SubnetOf(Network(VmNet(a.id))) # SubnetOf(Network(VmNet(b.id)))
            /\ ~a.nop =>
                /\ SubnetOf(Network(PlayersNet(a.id))) = FormatCidr(PlayerSubnet(a.id))
                /\ SubnetOf(Network(PlayersNet(a.id))) # SubnetOf(Network(VmNet(b.id)))
                /\ PortsOf(Service(WireguardSvc(a.id)))
                      = {Published(Cfg.wireguard_start_port + a.id)}
            /\ (~a.nop /\ ~b.nop) =>
                /\ PlayersNet(a.id) # PlayersNet(b.id)
                /\ SubnetOf(Network(PlayersNet(a.id))) # SubnetOf(Network(PlayersNet(b.id)))
                /\ PortsOf(Service(WireguardSvc(a.id)))
                      \cap PortsOf(Service(WireguardSvc(b.id))) = {}
        /\ \A n1, n2 \in Keys(TNetworks) :
              (n1 # n2 /\ IsDict(Network(n1)) /\ IsDict(Network(n2)))
                  => SubnetOf(Network(n1)) # SubnetOf(Network(n2))
        /\ \A s1, s2 \in Keys(TServices) :
              s1 # s2 => PortsOf(Service(s1)) \cap PortsOf(Service(s2)) = {}

\* a compile of a config with a nop team and two player teams
C1_Witness ==
    /\ Built
    /\ \E a, b, c \in TeamsOf(Cfg) : a.id # b.id /\ ~a.nop /\ ~b.nop /\ c.nop

\* C2: a team with nop = true gets no players<id> network, no wireguard<id>
\* service and no players<id> attachment of the router; it still gets its
\* vm-team<id> network, its team<id> service and its place in the
\* gameserver's depends_on.
C2_NopTeamHasNoPlayerSide ==
    Built =>
        \A team \in TeamsOf(Cfg) : team.nop =>
            /\ PlayersNet(team.id) \notin Keys(TNetworks)
            /\ WireguardSvc(team.id) \notin Keys(TServices)
            /\ PlayersNet(team.id) \notin NetworksOf(Service("router"))
            /\ \A s \in Keys(TServices) : PlayersNet(team.id) \notin NetworksOf(Service(s))
            /\ VmNet(team.id) \in Keys(TNetworks)
            /\ TeamSvc(team.id) \in Keys(TServices)
            /\ TeamSvc(team.id) \in DependsOn(Service("gameserver"))

\* a compile of a config with a nop team next to a player team
C2_Witness ==
    /\ Built
    /\ \E a, b \in TeamsOf(Cfg) : a.nop /\ ~b.nop
    /\ \E b \in TeamsOf(Cfg) : WireguardSvc(b.id) \in Keys(TServices)

\* C3: the gameserver's depends_on is exactly router, database and team<id>
\* of every team of the config, for any number of teams.
C3_GameserverDependsOnExactly ==
    Built =>
        /\ DependsOn(Service("gameserver"))
              = {"router", "database"} \cup {TeamSvc(team.id) : team \in TeamsOf(Cfg)}
        /\ Len(Get(Service("gameserver"), "depends_on").v) = 2 + Len(Cfg.teams)
        /\ \A team \in TeamsOf(Cfg) :
              WireguardSvc(team.id) \notin DependsOn(Service("gameserver"))

\* a compile with player teams, so that wireguard services exist
C3_Witness ==
    /\ Built
    /\ Len(Cfg.teams) >= 2
    /\ \E team \in TeamsOf(Cfg) : WireguardSvc(team.id) \in Keys(TServices)

\* C4: every name in a service's depends_on is a service of the topology and
\* every network a service attaches to is a network of the topology.
C4_NoDanglingReference ==
    Built =>
        \A s \in Keys(TServices) :
            /\ DependsOn(Service(s)) \subseteq Keys(TServices)
            /\ NetworksOf(Service(s)) \subseteq Keys(TNetworks)

\* a compile of a config with a nop team next to a player team
C4_Witness ==
    /\ Built
    /\ \E a, b \in TeamsOf(Cfg) : a.nop /\ ~b.nop
    /\ Cardinality(Keys(TServices)) >= 6

\* the compile without teams
ZeroTeamsCompiled == Built /\ Len(Cfg.teams) = 0

(***************************************************************************)
(* C5, C6: configs out of range.                                           *)
(***************************************************************************)
PortOverflows(config) ==
    \E team \in TeamsOf(config) : config.wireguard_start_port + team.id > MaxPort

\* C5: a config whose largest VPN port exceeds 65535 is rejected before any
\* network or service is emitted: no topology is built from it and no
\* compose file is written (stated for configs whose team ids are all
\* below 250, so that only the port range is at stake).
C5_PortOverflowIsRejected ==
    (/\ config_exists
     /\ PortOverflows(read_config)
     /\ \A team \in TeamsOf(read_config) : team.id < TeamLimit)
        => (~Built /\ ~composefile.exists)

\* the example of the claim: start port 65533 and 5 teams, compiled
C5_ExampleCompiled ==
    /\ Built /\ composefile.exists
    /\ Cfg.wireguard_start_port = 65533
    /\ Len(Cfg.teams) = 5
    /\ \A k \in 1 .. 5 : Cfg.teams[k].id = k - 1
    /\ "65537:51820/udp" \in PortsOf(Service(WireguardSvc(4)))

\* the subnets of team ids from the limit on
SubnetsFromLimit ==
    {FormatCidr(VmSubnet(id)) : id \in TeamLimit .. (TeamLimit + 5)}
    \cup {FormatCidr(PlayerSubnet(id)) : id \in TeamLimit .. (TeamLimit + 5)}

\* C6: no compiled topology has a 10.60.<id>.0/24 or 10.80.<id>.0/24 subnet
\* with id >= 250; a team with such an id is rejected.
C6_NoSubnetFromId250 ==
    Built =>
        \A n \in Keys(TNetworks) :
            IsDict(Network(n)) => SubnetOf(Network(n)) \notin SubnetsFromLimit

\* every config that config_input creates keeps its ids below 250 and its
\* ports up to 65535: the prompts ask again until the answers are in range
CreatedConfigsInRange ==
    \A c \in CreatedConfigs :
        /\ ~PortOverflows(c)
        /\ \A team \in TeamsOf(c) : team.id < TeamLimit

(***************************************************************************)
(* C7: the router's attachments.                                           *)
(***************************************************************************)
\* C7 as claimed: the router is attached to every network of the topology.
C7_RouterOnEveryNetwork ==
    Built => NetworksOf(Service("router")) = Keys(TNetworks)

\* C7 amended: the router is attached to every network of the topology
\* except internalnet: to externalnet, gameserver, every team's VM network
\* and every non-nop team's player network.
C7_RouterOnEveryNetworkButInternal ==
    Built =>
        /\ "internalnet" \in Keys(TNetworks)
        /\ NetworksOf(Service("router")) = Keys(TNetworks) \ {"internalnet"}
        /\ {"externalnet", "gameserver"} \subseteq NetworksOf(Service("router"))
        /\ \A team \in TeamsOf(Cfg) :
              /\ VmNet(team.id) \in NetworksOf(Service("router"))
              /\ ~team.nop => PlayersNet(team.id) \in NetworksOf(Service("router"))

\* a compile with a nop team and a player team
C7_Witness ==
    /\ Built
    /\ \E a, b \in TeamsOf(Cfg) : a.nop /\ ~b.nop
    /\ Cardinality(NetworksOf(Service("router"))) >= 5

(***************************************************************************)
(* C8: what the VPN endpoints let through.                                 *)
(***************************************************************************)
Octets(x) == <<x.a, x.b, x.c, x.d>>
\* the range holds the whole subnet (prefix lengths are whole octets)
Covers(range, subnet) ==
    /\ range.len <= subnet.len
    /\ \A k \in 1 .. (range.len \div 8) : Octets(range)[k] = Octets(subnet)[k]
Allowed(subnet) == \E k \in DOMAIN AllowedIps : Covers(AllowedIps[k], subnet)
AllowedIpsOf(svc) == Get(Get(svc, "environment"), "ALLOWEDIPS").v

\* C8 as claimed: the allowed ranges of wireguard<i> hold the gameserver
\* subnet and team i's VM subnet and no other team's VM or player subnet.
C8_OnlyOwnSubnetsAllowed ==
    Built =>
        \A a \in TeamsOf(Cfg) : ~a.nop =>
            /\ AllowedIpsOf(Service(WireguardSvc(a.id))) = AllowedIpsText
            /\ Allowed(GameserverSubnet)
            /\ Allowed(VmSubnet(a.id))
            /\ \A b \in TeamsOf(Cfg) : b.id # a.id =>
                  /\ ~Allowed(VmSubnet(b.id))
                  /\ ~Allowed(PlayerSubnet(b.id))

\* C8 amended: the allowed ranges of every wireguard<i> are the same three
\* /16 blocks; they hold the gameserver subnet and team i's VM subnet, and
\* also every other team's VM subnet and player subnet.
C8_AllTeamSubnetsAllowed ==
    Built =>
        \A a \in TeamsOf(Cfg) : ~a.nop =>
            /\ AllowedIpsOf(Service(WireguardSvc(a.id))) = AllowedIpsText
            /\ Allowed(GameserverSubnet)
            /\ Allowed(VmSubnet(a.id))
            /\ \A b \in TeamsOf(Cfg) : b.id # a.id =>
                  /\ Allowed(VmSubnet(b.id))
                  /\ Allowed(PlayerSubnet(b.id))

\* a compile with two player teams
C8_Witness ==
    /\ Built
    /\ \E a, b \in TeamsOf(Cfg) :
          /\ a.id # b.id /\ ~a.nop /\ ~b.nop
          /\ WireguardSvc(a.id) \in Keys(TServices)
          /\ WireguardSvc(b.id) \in Keys(TServices)

FourTeamsFrom51000 ==
    /\ Built
    /\ Cfg.wireguard_start_port = 51000
    /\ Len(Cfg.teams) = 4
    /\ \A k \in 1 .. 4 : Cfg.teams[k].id = k - 1

VpnPorts == UNION {PortsOf(Service(s)) : s \in Keys(TServices) \ {"gameserver"}}
VmSubnets ==
    {SubnetOf(Network(n)) :
        n \in {m \in Keys(TNetworks) \ {"gameserver"} :
                  IsDict(Network(m)) /\ Has(Network(m), "internal")}}
PlayerNetworks ==
    {n \in Keys(TNetworks) : IsDict(Network(n)) /\ ~Has(Network(n), "internal")}

\* C10: start port 51000 and 4 teams.  Without a nop team the VPN ports are
\* 51000..51003 and the VM subnets 10.60.0.0/24..10.60.3.0/24; with team 0
\* the nop team, the player networks are those of teams 1 to 3 and no other,
\* and the VM subnet of team 0 is still 10.60.0.0/24.
C10_FourTeamsExample ==
    FourTeamsFrom51000 =>
        /\ (\A k \in 1 .. 4 : ~Cfg.teams[k].nop) =>
              /\ VpnPorts = {"51000:51820/udp", "51001:51820/udp",
                             "51002:51820/udp", "51003:51820/udp"}
              /\ {team.wireguard_port : team \in TeamsOf(Cfg)} = 51000 .. 51003
              /\ VmSubnets = {"10.60.0.0/24", "10.60.1.0/24", "10.60.2.0/24",
                              "10.60.3.0/24"}
        /\ Cfg.teams[1].nop =>
              /\ PlayerNetworks = {"players1", "players2", "players3"}
              /\ Keys(TNetworks) =
                    {"externalnet", "internalnet", "gameserver", "vm-team0",
                     "vm-team1", "vm-team2", "vm-team3", "players1", "players2",
                     "players3"}
              /\ SubnetOf(Network("vm-team0")) = "10.60.0.0/24"
              /\ VmSubnets = {"10.60.0.0/24", "10.60.1.0/24", "10.60.2.0/24",
                              "10.60.3.0/24"}

\* the example with the nop team compiled
C10_Witness == FourTeamsFrom51000 /\ Cfg.teams[1].nop

\* the example without a nop team compiled
C10_WitnessNoNop == FourTeamsFrom51000 /\ \A k \in 1 .. 4 : ~Cfg.teams[k].nop

(***************************************************************************)
(* C12 - C14: the team VM services, and the compile without teams.         *)
(***************************************************************************)
\* the services of the topology that are team VMs
VmServices == {n \in Keys(TServices) : \E team \in TeamsOf(Cfg) : n = TeamSvc(team.id)}

\* C12: every team<id> service has exactly one of 'privileged' and
\* 'runtime': privileged: true when the config's unsafe_privileged is true,
\* runtime: sysbox-runc otherwise; so all VM services of a topology agree.
C12_OneIsolationSetting ==
    Built =>
        /\ \A team \in TeamsOf(Cfg) : TeamSvc(team.id) \in Keys(TServices)
        /\ \A n \in VmServices :
              /\ Has(Service(n), "privileged") # Has(Service(n), "runtime")
              /\ Cfg.unsafe_privileged =>
                    /\ Has(Service(n), "privileged")
                    /\ Get(Service(n), "privileged") = S("true")
              /\ ~Cfg.unsafe_privileged =>
                    /\ Has(Service(n), "runtime")
                    /\ Get(Service(n), "runtime") = S("sysbox-runc")
        /\ \A n, m \in VmServices :
              Has(Service(n), "privileged") = Has(Service(m), "privileged")

\* a privileged compile with two VMs
C12_Witness ==
    /\ Built /\ Cfg.unsafe_privileged
    /\ Cardinality(VmServices) >= 2
    /\ \A n \in VmServices : Has(Service(n), "privileged")

\* a hardened compile with two VMs
C12_WitnessSysbox ==
    /\ Built /\ ~Cfg.unsafe_privileged
    /\ Cardinality(VmServices) >= 2
    /\ \A n \in VmServices : Has(Service(n), "runtime")

Ipv4AddressOn(svc, net) == Get(Get(Get(svc, "networks"), net), "ipv4_address").v
VmAddress(id, host) == "10.60." \o ToString(id) \o "." \o ToString(host)

\* C13: team<i> is attached to vm-team<i> and to nothing else, at 10.60.i.1;
\* that network's subnet is 10.60.i.0/24, which holds the address; its
\* gateway is .254 and the router is on it at .250, both other addresses.
C13_VmOnOwnNetworkOnly ==
    Built =>
        \A team \in TeamsOf(Cfg) :
            LET svc == Service(TeamSvc(team.id))
                net == VmNet(team.id)
            IN  /\ NetworksOf(svc) = {net}
                /\ net = "vm-team" \o ToString(team.id)
                /\ net \in Keys(TNetworks)
                /\ Ipv4AddressOn(svc, net) = VmAddress(team.id, 1)
                /\ SubnetOf(Network(net)) = VmAddress(team.id, 0) \o "/24"
                /\ Covers(Cidr(10, 60, team.id, 0, 24), Cidr(10, 60, team.id, 1, 32))
                /\ GatewayOf(Network(net)) = VmAddress(team.id, 254)
                /\ Ipv4AddressOn(Service("router"), net) = VmAddress(team.id, 250)
                /\ Ipv4AddressOn(svc, net) \notin
                      {GatewayOf(Network(net)), Ipv4AddressOn(Service("router"), net)}
                /\ \A other \in TeamsOf(Cfg) : other.id # team.id =>
                      VmNet(other.id) \notin NetworksOf(svc)
                /\ NetworksOf(svc) \cap
                      ({"gameserver", "internalnet", "externalnet"}
                       \cup {PlayersNet(t.id) : t \in TeamsOf(Cfg)}) = {}

\* a compile with a nop team and two player teams, VMs and player networks
C13_Witness ==
    /\ Built
    /\ \E a, b, c \in TeamsOf(Cfg) :
          /\ a.nop /\ ~b.nop /\ ~c.nop /\ b.id # c.id
          /\ NetworksOf(Service(TeamSvc(b.id))) = {VmNet(b.id)}
          /\ PlayersNet(b.id) \in Keys(TNetworks)

\* C14: a config without teams compiles; the services are router, database
\* and gameserver, the networks externalnet, internalnet and gameserver, and
\* the router's NTEAM is 0.
C14_ZeroTeams ==
    (config_exists /\ Len(read_config.teams) = 0 /\ pc = "composecmd") =>
        /\ Built /\ composefile.exists
        /\ Keys(TServices) = {"router", "database", "gameserver"}
        /\ Keys(TNetworks) = {"externalnet", "internalnet", "gameserver"}
        /\ Get(Get(Service("router"), "environment"), "NTEAM") = I(0)
        /\ NetworksOf(Service("router")) = {"externalnet", "gameserver"}
        /\ DependsOn(Service("gameserver")) = {"router", "database"}

\* the compile of a config without teams, handed to docker compose
C14_Witness ==
    /\ ZeroTeamsCompiled /\ pc = "composecmd"
    /\ Len(composefile.yaml) > 0
    /\ Keys(TServices) = {"router", "database", "gameserver"}

(***************************************************************************)
(* dict_to_yaml on its own: a value tree and an indentation unit are       *)
(* drawn, and the function is called with the other arguments at their     *)
(* defaults, as write_compose calls it.                                    *)
(***************************************************************************)
\* layers of 'k: <tree>' and '- k: <tree>' put around the drawn shapes
MaxWrap == 1

Leaves == {S("v")}
Empties == {D(<<>>), L(<<>>)}
\* one more level: mappings of one or two keys, sequences of one or two items
Grow(trees) ==
    trees
    \cup {D(<<KV("a", x)>>) : x \in trees}
    \cup {D(<<KV("a", x), KV("b", y)>>) : x, y \in trees}
    \cup {L(<<x>>) : x \in trees}
    \cup {L(<<x, y>>) : x, y \in trees}
Shapes == Grow(Grow(Leaves \cup Empties))

RECURSIVE Wrapped(_)
Wrapped(n) ==
    IF n = 0 THEN Shapes
    ELSE Wrapped(n - 1)
         \cup {D(<<KV("k", x)>>) : x \in Wrapped(n - 1)}
         \cup {L(<<D(<<KV("k", x)>>)>>) : x \in Wrapped(n - 1)}

YamlTrees == Wrapped(MaxWrap)
IndentUnits == {1, 2, 4}

YamlCalls ==
    {[fn |-> "dict_to_yaml", data |-> x, indent_spaces |-> n] :
        x \in YamlTrees, n \in IndentUnits}

DictToYaml ==
    /\ call.fn = "dict_to_yaml"
    /\ ~result.done
    /\ result' = [done |-> TRUE,
                  yaml |-> dict_to_yaml(call.data, call.indent_spaces, 0, 0, None)]
    /\ UNCHANGED <<config_file, edits, composefile, topology, compiled, pc, args, user,
                   is_linux, running, docker, cleared, call>>

InitYaml ==
    /\ config_file = NoFile
    /\ edits = 0
    /\ composefile = NoFile
    /\ topology = NoTopology
    /\ compiled = NotCompiled
    /\ pc = "idle"
    /\ args = NoArgs
    /\ user = NoUser
    /\ is_linux = TRUE
    /\ running = FALSE
    /\ docker = <<>>
    /\ cleared = {}
    /\ call \in YamlCalls
    /\ result = NoResult

NextYaml == DictToYaml

SpecYaml == InitYaml /\ [][NextYaml]_vars

(***************************************************************************)
(* Reading the text back.  A block of lines is a sequence when its first   *)
(* line starts with the "- " marker, a scalar when it is one line without  *)
(* a key, and a mapping otherwise; the lines of a block that are indented  *)
(* deeper than its keys (or dashes) belong to the entry above them.  A key *)
(* with nothing under it decodes to the empty value.                       *)
(***************************************************************************)
Null == [t |-> "null"]
Malformed == [t |-> "malformed"]

\* the column where the key (or the item's value) of a line starts
KeyCol(l) == l.pad + Len(l.mark)

\* the lines of the entry that starts at line i: up to the next start
EntryLines(lines, starts, i) ==
    LET later == {j \in starts : j > i}
        last == IF later = {} THEN Len(lines)
                ELSE (CHOOSE j \in later : \A k \in later : j <= k) - 1
    IN  SubSeq(lines, i, last)

\* the starts in order
RECURSIVE Ordered(_)
Ordered(starts) ==
    IF starts = {} THEN <<>>
    ELSE LET least == CHOOSE j \in starts : \A k \in starts : j <= k
         IN  <<least>> \o Ordered(starts \ {least})

RECURSIVE Decode(_)
Decode(lines) ==
    IF lines = <<>> THEN Null
    ELSE IF lines[1].mark = "- "
    THEN \* a sequence with its dashes in column lines[1].pad
         LET c == lines[1].pad
             starts == {i \in DOMAIN lines : lines[i].mark = "- " /\ lines[i].pad = c}
             order == Ordered(starts)
             Item(i) ==
                LET own == EntryLines(lines, starts, i)
                IN  IF own[1].key = ""
                    THEN (IF Len(own) = 1 /\ own[1].sep = ""
                          THEN S(own[1].val) ELSE Malformed)
                    ELSE Decode(<<[own[1] EXCEPT !.mark = "", !.pad = c + 2]>>
                                \o Tail(own))
         IN  IF \A i \in DOMAIN lines \ starts : lines[i].pad > c
             THEN L([k \in DOMAIN order |-> Item(order[k])])
             ELSE Malformed
    ELSE IF lines[1].key = ""
    THEN (IF Len(lines) = 1 THEN S(lines[1].val) ELSE Malformed)
    ELSE \* a mapping with its keys in column lines[1].pad
         LET c == lines[1].pad
             starts == {i \in DOMAIN lines :
                          lines[i].mark = "" /\ lines[i].pad = c /\ lines[i].key # ""}
             order == Ordered(starts)
             Value(i) ==
                LET own == EntryLines(lines, starts, i)
                IN  IF own[1].sep = ": "
                    THEN (IF Len(own) = 1 THEN S(own[1].val) ELSE Malformed)
                    ELSE Decode(Tail(own))
         IN  IF \A i \in DOMAIN lines \ starts : KeyCol(lines[i]) > c
             THEN [t |-> "dict",
                   v |-> [k \in DOMAIN order |->
                            KV(lines[order[k]].key, Value(order[k]))]]
             ELSE Malformed

\* keys, their order and the nesting of a tree; the scalars are left out,
\* and an empty mapping, an empty sequence and a key with nothing under it
\* are all the empty block
RECURSIVE Skeleton(_)
Skeleton(x) ==
    IF x.t = "dict" /\ x.v # <<>>
    THEN [t |-> "dict", v |-> [i \in DOMAIN x.v |-> KV(x.v[i].k, Skeleton(x.v[i].v))]]
    ELSE IF x.t = "list" /\ x.v # <<>>
    THEN [t |-> "list", v |-> [i \in DOMAIN x.v |-> Skeleton(x.v[i])]]
    ELSE IF x.t \in {"dict", "list", "null"} THEN [t |-> "empty"]
    ELSE IF x.t \in {"str", "int"} THEN [t |-> "scalar"]
    ELSE x

RoundTrips(data, yaml) == Skeleton(Decode(yaml)) = Skeleton(data)

\* the tree and the trees inside it
RECURSIVE Subtrees(_)
Subtrees(x) ==
    {x} \cup (IF IsDict(x) THEN UNION {Subtrees(x.v[i].v) : i \in DOMAIN x.v}
              ELSE IF IsList(x) THEN UNION {Subtrees(x.v[i]) : i \in DOMAIN x.v}
              ELSE {})

SequenceOfMappings(x) == IsList(x) /\ x.v # <<>> /\ \A i \in DOMAIN x.v : IsDict(x.v[i])
\* an empty mapping is an element of a sequence of mappings
EmptyAsElement(data) ==
    \E x \in Subtrees(data) : SequenceOfMappings(x) /\ D(<<>>) \in Elems(x)
\* an empty mapping is a value in an element of a sequence of mappings
EmptyAsValue(data) ==
    \E x \in Subtrees(data) :
        SequenceOfMappings(x) /\ \E m \in Elems(x) : \E i \in DOMAIN m.v : m.v[i].v = D(<<>>)
\* no sequence is an element of a sequence, and no sequence is empty
Plain(data) ==
    \A x \in Subtrees(data) : IsList(x) => x.v # <<>> /\ \A i \in DOMAIN x.v : ~IsList(x.v[i])

(***************************************************************************)
(* C11, C15: the text of dict_to_yaml.                                     *)
(***************************************************************************)
\* C11: the text of a tree (plain otherwise) that has an empty mapping
\* inside a sequence of mappings, as a value of one of the mappings or as an
\* element of the sequence, decodes to the keys, order and nesting of the
\* tree, the empty mapping being an empty block.
C11_EmptyMappingRoundTrips ==
    (/\ call.fn = "dict_to_yaml" /\ result.done
     /\ Plain(call.data)
     /\ EmptyAsElement(call.data) \/ EmptyAsValue(call.data))
        => RoundTrips(call.data, result.yaml)

\* the case of C11 that the code meets: empty mappings that are values
C11_EmptyValueRoundTrips ==
    (/\ call.fn = "dict_to_yaml" /\ result.done
     /\ Plain(call.data)
     /\ EmptyAsValue(call.data) /\ ~EmptyAsElement(call.data))
        => RoundTrips(call.data, result.yaml)

\* the case of C11 that it does not: [{"a": "v"}, {}] comes out as '- a: v'
C11_ElementDropped ==
    /\ call.fn = "dict_to_yaml" /\ result.done
    /\ call.data = L(<<D(<<KV("a", S("v"))>>), D(<<>>)>>)
    /\ Text(result.yaml) = <<"- a: v">>
    /\ Decode(result.yaml) = L(<<D(<<KV("a", S("v"))>>)>>)

\* what C15 says of a tree whose keys (or dashes) start in column col: a
\* key line per key, the value of a key one unit deeper, the first key of a
\* sequence element two columns after its dash and the later keys under it
RECURSIVE Layout(_, _, _, _)
Layout(data, col, unit, dashed) ==
    IF IsDict(data)
    THEN Flatten([i \in DOMAIN data.v |->
            <<[dash |-> IF i = 1 /\ dashed THEN col - 2 ELSE -1,
               col |-> col, key |-> data.v[i].k]>>
            \o (IF IsDict(data.v[i].v) \/ IsList(data.v[i].v)
                THEN Layout(data.v[i].v, col + unit, unit, FALSE)
                ELSE <<>>)])
    ELSE IF IsList(data)
    THEN Flatten([i \in DOMAIN data.v |->
            IF IsDict(data.v[i]) THEN Layout(data.v[i], col + 2, unit, TRUE)
            ELSE <<[dash |-> col, col |-> col + 2, key |-> ""]>>])
    ELSE <<[dash |-> -1, col |-> col, key |-> ""]>>

\* where the dashes and the keys of the rendered lines are
Columns(yaml) ==
    [i \in DOMAIN yaml |->
        [dash |-> IF yaml[i].mark = "- " THEN yaml[i].pad ELSE -1,
         col |-> KeyCol(yaml[i]), key |-> yaml[i].key]]

\* C15: every mapping or sequence that is the value of a key starts
\* indent_spaces columns right of that key; a sequence element that is a
\* non-empty mapping has its first key on the line of the dash, two columns
\* after it, and its later keys in that same column; at every depth.
C15_IndentationAndAlignment ==
    (call.fn = "dict_to_yaml" /\ result.done /\ Plain(call.data))
        => Columns(result.yaml) = Layout(call.data, 0, call.indent_spaces, FALSE)

\* a rendered tree with a two-key mapping in a sequence under the key of a
\* sequence element, with an indentation unit other than the default
C15_Witness ==
    /\ call.fn = "dict_to_yaml" /\ result.done /\ Plain(call.data)
    /\ call.indent_spaces = 2
    /\ call.data = L(<<D(<<KV("k", L(<<D(<<KV("a", S("v")), KV("b", S("v"))>>)>>))>>)>>)
    /\ Text(result.yaml) = <<"- k:", "    - a: v", "      b: v">>

(***************************************************************************)
(* generate_teams_array on its own.                                        *)
(***************************************************************************)
TeamPorts == {1, 51000, 65533}

TeamCalls ==
    {[fn |-> "generate_teams_array", number_of_teams |-> n, enable_nop_team |-> nop,
      wireguard_start_port |-> p, draw |-> draw] :
        n \in 0 .. MaxTeams, nop \in BOOLEAN, p \in TeamPorts, draw \in TokenDraws}

GenerateTeamsArray ==
    /\ call.fn = "generate_teams_array"
    /\ ~result.done
    /\ result' = [done |-> TRUE,
                  teams |-> generate_teams_array(call.number_of_teams,
                                                 call.enable_nop_team,
                                                 call.wireguard_start_port,
                                                 token_hex(call.draw))]
    /\ UNCHANGED <<config_file, edits, composefile, topology, compiled, pc, args, user,
                   is_linux, running, docker, cleared, call>>

InitTeams ==
    /\ config_file = NoFile
    /\ edits = 0
    /\ composefile = NoFile
    /\ topology = NoTopology
    /\ compiled = NotCompiled
    /\ pc = "idle"
    /\ args = NoArgs
    /\ user = NoUser
    /\ is_linux = TRUE
    /\ running = FALSE
    /\ docker = <<>>
    /\ cleared = {}
    /\ call \in TeamCalls
    /\ result = NoResult

NextTeams == GenerateTeamsArray

SpecTeams == InitTeams /\ [][NextTeams]_vars

\* C16: the teams that generate_teams_array returns have their position in
\* the list as id (0, 1, 2, ...), wireguard_start_port + id as
\* wireguard_port, which is the port write_compose publishes for a team of
\* that id under that start port, and the only nop team, if any, is team 0,
\* present exactly when the nop team is enabled.
C16_DenseIdsAndPorts ==
    (call.fn = "generate_teams_array" /\ result.done) =>
        LET teams == result.teams
            config == [wireguard_start_port |-> call.wireguard_start_port]
        IN  /\ Len(teams) =
                  call.number_of_teams + (IF call.enable_nop_team THEN 1 ELSE 0)
            /\ \A k \in DOMAIN teams :
                  /\ teams[k].id = k - 1
                  /\ teams[k].wireguard_port = call.wireguard_start_port + teams[k].id
                  /\ teams[k].wireguard_port = ExternalPort(config, teams[k])
                  /\ teams[k].nop <=> (call.enable_nop_team /\ teams[k].id = 0)
            /\ Cardinality({k \in DOMAIN teams : teams[k].nop}) <= 1

\* a call with the nop team enabled and two or more other teams
C16_Witness ==
    /\ call.fn = "generate_teams_array" /\ result.done
    /\ call.enable_nop_team /\ call.number_of_teams >= 2
    /\ Len(result.teams) = call.number_of_teams + 1
    /\ result.teams[1].nop /\ result.teams[1].name = "Nop Team"
    /\ result.teams[3].wireguard_port = call.wireguard_start_port + 2

(***************************************************************************)
(* The runs of main on configs of few teams: every command, every flag,    *)
(* no hand edit.                                                           *)
(***************************************************************************)
\* largest answer to 'Number of teams' in these runs
MaxRunTeams == 1

RunAnswers ==
    {[number_of_teams |-> n, wireguard_start_port |-> 51000, enable_nop_team |-> FALSE,
      sysbox |-> o.sysbox, disk_limit |-> o.disk_limit,
      expose_gameserver |-> o.expose_gameserver] :
        n \in 0 .. MaxRunTeams, o \in OptionAnswers}

NextRuns ==
    \/ \E u \in Users : StartConfigOnly(u)
    \/ \E u \in Users, command \in {"start", "compose", "restart", "stop", "clear", "status"} :
          DockerUnavailable(u, command)
    \/ \E u \in Users, logs \in BOOLEAN : Start(u, logs)
    \/ \E a \in RunAnswers : ConfigInput(a, 1)
    \/ \E prebuilt_ok \in BOOLEAN : StartUp(prebuilt_ok)
    \/ \E u \in Users : Compose(u)
    \/ \E u \in Users, command \in {"restart", "stop"}, logs \in BOOLEAN :
          RestartOrStop(u, command, logs)
    \/ \E u \in Users, flags \in ClearFlagSets, answer \in ClearAnswers :
          Clear(u, flags, answer)
    \/ \E u \in Users : Status(u)
    \/ \E ok \in BOOLEAN : ComposeCmd(ok)
    \/ Logs
    \/ Exit

SpecRuns == Init /\ [][NextRuns]_vars

(***************************************************************************)
(* C17 - C19: what the runs of main do to the host.                        *)
(***************************************************************************)
\* C17: whenever composecmd has been called in a run, write_compose has
\* rebuilt the topology from the stored config in that run.
C17_ComposecmdAfterRebuild == docker # <<>> => Built

\* the calls of composecmd that are handed the compose file do follow a
\* rebuild
ComposecmdWithFileAfterRebuild ==
    (\E k \in DOMAIN docker : docker[k].composefile) => Built

\* restart --logs without config.json: the logs are followed all the same
LogsWithoutConfig ==
    /\ args.command = "restart" /\ args.logs
    /\ ~config_exists /\ ~Built
    /\ docker = <<[cmd |-> "logs -f", composefile |-> FALSE]>>

\* C18: in a run of main, config.json is written only when there was none;
\* the prompts of config_input are reached only when there is none; and
\* what a start compiles is the stored config.
C18_StartNeverOverwrites ==
    [][/\ (pc # "idle" /\ config_file'.exists /\ config_file' # config_file)
            => (~config_file.exists /\ args.command = "start")
       /\ pc' = "config_input" => ~config_file'.exists
       /\ (args'.command = "start" /\ config_file.exists) => config_file' = config_file
       /\ (args'.command = "start" /\ compiled' # compiled)
            => (config_file'.exists /\ compiled'.config = config_file'.config)]_vars

\* a start on a config that an earlier run had created and compiled
C18_Witness ==
    /\ args.command = "start" /\ pc = "composecmd"
    /\ config_exists /\ compiled.done /\ compiled.again
    /\ compiled.config = read_config

\* a start --config-only that finds the config and leaves
C18_WitnessConfigOnly ==
    args.command = "start" /\ args.config_only /\ pc = "exit" /\ config_exists /\ compiled.done

\* C19: clear removes nothing while the gameserver container runs; it
\* removes config.json only with --config, or with --all once the operator
\* has answered 'y'; without a flag, what it removes is everything but the
\* config; and config.json disappears only when clear_data removes it.
C19_ClearKeepsRunningAndConfig ==
    /\ [](/\ (args.command = "clear" /\ running) => cleared = {}
          /\ "config" \in cleared =>
                /\ args.command = "clear"
                /\ {"config", "all"} \cap args.flags # {}
                /\ "all" \in args.flags => Lower(args.answer) = "y"
          /\ (args.command = "clear" /\ args.flags = {} /\ cleared # {})
                => (~running /\ cleared = Removable \ {"config"})
          /\ args.command # "clear" => cleared = {})
    /\ [][(config_file.exists /\ ~config_file'.exists)
            => (~running /\ "config" \in cleared')]_vars

\* clear --all --config while the gameserver runs: nothing is removed
C19_Witness ==
    /\ args.command = "clear" /\ running
    /\ args.flags = {"all", "config"}
    /\ cleared = {} /\ config_exists

\* clear without a flag while it is stopped: all but the config is removed
C19_WitnessNoFlag ==
    /\ args.command = "clear" /\ ~running /\ args.flags = {}
    /\ cleared = Removable \ {"config"} /\ config_exists

====
